---- MODULE Spec2Model ----
(***************************************************************************)
(* Model of src/Paprika/prototype/merkle_node.c: the MerkleNode struct,    *)
(* its two header accessors and its three constructors.                    *)
(*                                                                         *)
(* A `byte` is a C `char` (line 6).  Header bytes are modelled by their    *)
(* bit pattern 0..255: the accessors only mask and shift the promoted      *)
(* value, and the masks 0b1000 and 0b0110 select the same bits whether the *)
(* char is signed or not.  The Length field is modelled by its VALUE,      *)
(* because malloc and memcpy receive the value: whether `char` is signed   *)
(* is the build's choice (charSigned), so Length ranges over -128..127 on  *)
(* a signed-char build and over 0..255 on an unsigned-char build.          *)
(***************************************************************************)
EXTENDS Integers, Sequences, FiniteSets, TLC

VARIABLES
    charSigned, \* the build: TRUE when `char` is a signed type
    op,         \* the last function that produced `node`
    argLen,     \* the pathLength argument of that call (2 for newBranch)
    argData,    \* the bytes the caller passed to that call
    status,     \* "none" (no node in scope), "returned", "crashed" or "forged"
    node,       \* the MerkleNode the call built
    inspected,  \* TRUE once the accessors were applied to `node`
    qDirty,     \* what MerkleNode_IsDirty(node) returned
    qType       \* what MerkleNode_NodeType(node) returned

vars == <<charSigned, op, argLen, argData, status, node, inspected, qDirty, qType>>

-----------------------------------------------------------------------------
(* Bounds of the model *)

\* longest path a caller passes; above 256 so that the int -> char
\* conversion of pathLength wraps
MaxPathLen == 260

-----------------------------------------------------------------------------
(* Program constants *)

Leaf == 0
Extension == 1
Branch == 2

IsDirtyFlag == 8
NodeTypeFlag == 6

\* sizeof(branch.Keccak)
KeccakSize == 32
\* branch.Length = 2
BranchLength == 2
\* width of `byte`
ByteBits == 8

ByteRange == 0 .. (2 ^ ByteBits - 1)

-----------------------------------------------------------------------------
(* Bit operations of C on values that fit a byte *)

Bit(x, i) == (x \div (2 ^ i)) % 2

RECURSIVE BitAndFrom(_, _, _)
BitAndFrom(a, b, i) ==
    IF i = ByteBits THEN 0
    ELSE (2 ^ i) * (Bit(a, i) * Bit(b, i)) + BitAndFrom(a, b, i + 1)

BitAnd(a, b) == BitAndFrom(a, b, 0)

RECURSIVE BitOrFrom(_, _, _)
BitOrFrom(a, b, i) ==
    IF i = ByteBits THEN 0
    ELSE (2 ^ i) * (IF Bit(a, i) + Bit(b, i) > 0 THEN 1 ELSE 0)
         + BitOrFrom(a, b, i + 1)

BitOr(a, b) == BitOrFrom(a, b, 0)

ShiftLeft(x, n) == x * (2 ^ n)
ShiftRight(x, n) == x \div (2 ^ n)

-----------------------------------------------------------------------------
(* Accessors *)

IsDirty_WrongMask(header) == BitAnd(header, NodeTypeFlag) # 0

\* return (node.Header & IsDirtyFlag) != 0;
MerkleNode_IsDirty(header) == BitAnd(header, IsDirtyFlag) # 0

NodeType_ShiftTwo(header) == ShiftRight(BitAnd(header, NodeTypeFlag), 2)

\* return (NodeType)((node.Header & NodeTypeFlag) >> 1);
\* The cast checks nothing: a tag of 3 comes back as the enum value 3.
MerkleNode_NodeType(header) == ShiftRight(BitAnd(header, NodeTypeFlag), 1)

-----------------------------------------------------------------------------
(* Constructors *)

PackHeader_DropsDirty(type, dirty) == ShiftLeft(type, 1)

\* (byte)Branch << 1 | IsDirtyFlag, with the flag or-ed in when dirty.
\* The constructors only ever build the dirty form.
PackHeader(type, dirty) ==
    BitOr(ShiftLeft(type, 1), IF dirty THEN IsDirtyFlag ELSE 0) % (2 ^ ByteBits)

ToByte_SevenBits(n) == n % (2 ^ (ByteBits - 1))

\* extension.Length = pathLength;   int -> char
ToByte(n) ==
    IF charSigned
    THEN ((n + 2 ^ (ByteBits - 1)) % (2 ^ ByteBits)) - 2 ^ (ByteBits - 1)
    ELSE n % (2 ^ ByteBits)

\* MerkleNode x = {};  memset(x.Keccak, 0, sizeof(x.Keccak));
ZeroKeccak == [i \in 1 .. KeccakSize |-> 0]

NoNode == [Header |-> 0, Keccak |-> ZeroKeccak, Length |-> 0, Data |-> <<>>]

\* x.Data = malloc(x.Length); memcpy(x.Data, src, x.Length);
\* A negative Length converts to a size_t within 128 of SIZE_MAX: malloc
\* cannot satisfy it and returns NULL, and memcpy then writes through NULL
\* for nearly the whole address space, which faults.  The constructor does
\* not return.  Otherwise the first Length bytes of src are copied.
Build(header, length, src) ==
    IF length < 0
    THEN [status |-> "crashed", node |-> NoNode]
    ELSE [status |-> "returned",
          node |-> [Header |-> header, Keccak |-> ZeroKeccak,
                    Length |-> length, Data |-> SubSeq(src, 1, length)]]

\* the paths of test_extension ({1,3,5,7}) and test_leaf ({2,4,6}),
\* continued to any length
PathBases == {1, 2}
PathBytes(base, n) == [i \in 1 .. n |-> (base + 2 * (i - 1)) % (2 ^ ByteBits)]

\* bitmap bytes a caller passes to newBranch; 105 = 0b01101001 is test_branch's
BitmapBytes == {0, 1, 2, 3, 105, 128, 255}

\* what every constructor leaves behind: the call, its result, and accessor
\* outputs not yet taken
Called(name, len, data, r) ==
    /\ op' = name
    /\ argLen' = len
    /\ argData' = data
    /\ status' = r.status
    /\ node' = r.node
    /\ inspected' = FALSE
    /\ qDirty' = FALSE
    /\ qType' = 0
    /\ UNCHANGED charSigned

\* MerkleNode MerkleNode_newBranch(byte *nibbles)
MerkleNode_newBranch ==
    /\ status = "none"
    /\ \E b1 \in BitmapBytes, b2 \in BitmapBytes :
        Called("newBranch", BranchLength, <<b1, b2>>,
               Build(PackHeader(Branch, TRUE), BranchLength, <<b1, b2>>))

\* MerkleNode MerkleNode_newExtension(byte *nibblePath, int pathLength)
MerkleNode_newExtension ==
    /\ status = "none"
    /\ \E pathLength \in 0 .. MaxPathLen, base \in PathBases :
        Called("newExtension", pathLength, PathBytes(base, pathLength),
               Build(PackHeader(Extension, TRUE), ToByte(pathLength),
                     PathBytes(base, pathLength)))

\* MerkleNode MerkleNode_newLeaf(byte *nibblePath, int pathLength)
MerkleNode_newLeaf ==
    /\ status = "none"
    /\ \E pathLength \in 0 .. MaxPathLen, base \in PathBases :
        Called("newLeaf", pathLength, PathBytes(base, pathLength),
               Build(PackHeader(Leaf, TRUE), ToByte(pathLength),
                     PathBytes(base, pathLength)))

\* The struct is public: a caller may hand the accessors a MerkleNode whose
\* Header holds any byte.
ForgeHeader ==
    /\ status = "none"
    /\ \E h \in ByteRange :
        Called("forge", 0, <<>>,
               [status |-> "forged", node |-> [NoNode EXCEPT !.Header = h]])

\* test_*: MerkleNode_IsDirty(node), MerkleNode_NodeType(node)
Inspect ==
    /\ status \in {"returned", "forged"}
    /\ ~inspected
    /\ inspected' = TRUE
    /\ qDirty' = MerkleNode_IsDirty(node.Header)
    /\ qType' = MerkleNode_NodeType(node.Header)
    /\ UNCHANGED <<charSigned, op, argLen, argData, status, node>>

\* test_* returns: its node goes out of scope and the next test starts.
\* A crashed process runs nothing more.
LeaveScope ==
    /\ status \in {"returned", "forged"}
    /\ op' = "none"
    /\ argLen' = 0
    /\ argData' = <<>>
    /\ status' = "none"
    /\ node' = NoNode
    /\ inspected' = FALSE
    /\ qDirty' = FALSE
    /\ qType' = 0
    /\ UNCHANGED charSigned

Init ==
    /\ charSigned \in BOOLEAN
    /\ op = "none"
    /\ argLen = 0
    /\ argData = <<>>
    /\ status = "none"
    /\ node = NoNode
    /\ inspected = FALSE
    /\ qDirty = FALSE
    /\ qType = 0

Next ==
    \/ MerkleNode_newBranch
    \/ MerkleNode_newExtension
    \/ MerkleNode_newLeaf
    \/ ForgeHeader
    \/ Inspect
    \/ LeaveScope

Spec == Init /\ [][Next]_vars

-----------------------------------------------------------------------------
(* Properties *)

NodeTypes == {Leaf, Extension, Branch}

\* the type tag as the layout states it: bits 1-2 of the header
TagBits(header) == Bit(header, 1) + 2 * Bit(header, 2)
\* the dirty flag as the layout states it: bit 3 of the header
DirtyBit(header) == Bit(header, 3) = 1

\* number of children a 2-byte bitmap marks present
RECURSIVE OnesFrom(_, _)
OnesFrom(b, i) == IF i = ByteBits THEN 0 ELSE Bit(b, i) + OnesFrom(b, i + 1)
PopCount(bitmap) == OnesFrom(bitmap[1], 0) + OnesFrom(bitmap[2], 0)

\* the type each constructor is meant to build
TypeBuiltBy(name) ==
    CASE name = "newLeaf" -> Leaf
      [] name = "newExtension" -> Extension
      [] name = "newBranch" -> Branch
      [] OTHER -> -1

\* C1: every node a constructor returns is dirty (MerkleNode_IsDirty is TRUE
\* on it, also when a caller asks) and its Keccak field holds no hash: all
\* 32 bytes are zero.
C1_NewNodesDirty ==
    status = "returned" =>
        /\ MerkleNode_IsDirty(node.Header)
        /\ inspected => qDirty
        /\ node.Keccak = ZeroKeccak

C1_Witness ==
    /\ status = "returned"
    /\ op = "newBranch"
    /\ inspected
    /\ qDirty

\* C2: the accessors decode the type from bits 1-2 and the dirty flag from
\* bit 3 of any header byte, each independently of every other bit, so the
\* header packed from (t, d) decodes to exactly (t, d) for the three types
\* and both values of d.
C2_HeaderRoundTrip ==
    inspected =>
        /\ qType = TagBits(node.Header)
        /\ qDirty = DirtyBit(node.Header)
        /\ \A t \in NodeTypes, d \in BOOLEAN :
               node.Header = PackHeader(t, d) => (qType = t /\ qDirty = d)

C2_Witness ==
    /\ inspected
    /\ status = "forged"
    /\ node.Header = PackHeader(Branch, FALSE)
    /\ qType = Branch
    /\ ~qDirty

C4_LeafLengthBoundary ==
    op = "newLeaf" =>
        IF argLen <= 2 ^ ByteBits - 1
        THEN /\ status = "returned"
             /\ node.Length = argLen
             /\ node.Data = argData
        ELSE status = "PayloadTooLarge"

\* C5: in every node a constructor returns, Length is the number of bytes
\* stored in Data; for a Leaf or Extension built from a path of 0..255 bytes
\* Length is that path's length and Data is that path; for a Branch Length
\* is exactly 2.
C5_LengthMatchesPayload ==
    status = "returned" =>
        /\ node.Length = Len(node.Data)
        /\ (op \in {"newLeaf", "newExtension"} /\ argLen <= 2 ^ ByteBits - 1) =>
               (node.Length = argLen /\ node.Data = argData)
        /\ op = "newBranch" => (node.Length = 2 /\ node.Data = argData)

C5_Witness ==
    /\ status = "returned"
    /\ op = "newLeaf"
    /\ argLen = 2 ^ ByteBits - 1
    /\ node.Length = argLen
    /\ Len(node.Data) = argLen

\* C8 (as claimed): newBranch fails with EmptyBranchError on a bitmap with
\* fewer than 2 bits set and otherwise returns a Branch holding the bitmap.
C8_BranchRejectsDegenerate ==
    op = "newBranch" =>
        IF PopCount(argData) < 2
        THEN status = "EmptyBranchError"
        ELSE /\ status = "returned"
             /\ MerkleNode_NodeType(node.Header) = Branch
             /\ node.Data = argData

\* C9 (as claimed): newExtension fails with EmptyPathError on the empty path
\* and returns an Extension holding the path when it has 1..255 bytes.
C9_ExtensionRejectsEmpty ==
    op = "newExtension" =>
        /\ argLen = 0 => status = "EmptyPathError"
        /\ argLen \in 1 .. (2 ^ ByteBits - 1) =>
               /\ status = "returned"
               /\ MerkleNode_NodeType(node.Header) = Extension
               /\ node.Data = argData

\* C10 (as claimed): decoding a header whose bits 1-2 hold 3 fails with
\* InvalidEncoding, and the type accessor never returns a value outside
\* {Leaf, Extension, Branch}.
C10_TagThreeRejected ==
    inspected =>
        /\ qType \in NodeTypes
        /\ TagBits(node.Header) = 3 => status = "InvalidEncoding"

====
